---- MODULE Spec2Model ----
(***************************************************************************)
(* Contract Intelligence API (FastAPI): the request handlers of            *)
(* app/api/endpoints.py as a state machine.                                *)
(*                                                                         *)
(* Scheduling: one asyncio event loop.  A handler declared "async def"     *)
(* runs on the loop and keeps it until it awaits or returns; "loop" holds  *)
(* the request that owns the loop (0: nobody).  ingest_pdfs and            *)
(* ask_question contain no await, so their steps are never interleaved     *)
(* with another async handler.  extract_metadata and audit_contract give   *)
(* the loop up at "await structured_llm.ainvoke", the streaming generator  *)
(* at every fragment.  get_metrics is a plain "def": FastAPI runs it in a  *)
(* worker thread, so it may observe any intermediate state.                *)
(*                                                                         *)
(* The vector index, the language model and the PDF library are external:  *)
(* each call either fails (raises) or succeeds, chosen nondeterministicly. *)
(* endpoints.py imports the two handles as "vectorstore" and "llm"; the    *)
(* handlers are modelled as written, the handles standing for the index    *)
(* and the model.                                                          *)
(*                                                                         *)
(* A request is received ("pending"), its handler runs, the outcome is     *)
(* fixed ("return") and the response is sent, which frees the slot.  The   *)
(* record of a request keeps the handler's locals and, for the properties  *)
(* below, what the request has done so far (hits, wr, di0, idx0, errInc,   *)
(* llmCalls, seen).                                                        *)
(***************************************************************************)
EXTENDS Integers, Sequences, FiniteSets, TLC

\* ---------------------------------------------------------------- bounds
NReq == 2
MaxCalls == 2
MaxFiles == 3
MaxPages == 11
MaxChunks == 2
MaxFrags == 2
NHnd == 3
MaxText == 6
NThr == 2
MaxGets == 2
MaxRanked == 5
MaxStarts == 3
MaxProbes == 3

\* chunk_size=1000 and chunk_overlap=100, scaled down
ChunkSize == 4
ChunkOverlap == 1

\* ---------------------------------------------------------------- inputs
Req == 1..NReq
Filenames == {"a.pdf", "b.pdf"}
DocIds == Filenames \cup {"none.pdf"}
PageCounts == {1, MaxPages}
Fragments == {"", "to", "ken"}

RECURSIVE SeqsUpTo(_, _)
SeqsUpTo(S, n) ==
    IF n = 0 THEN {<<>>}
    ELSE LET shorter == SeqsUpTo(S, n - 1)
         IN  shorter \cup {Append(s, x) : s \in shorter, x \in S}

Uploads == SeqsUpTo(Filenames, MaxFiles) \ {<<>>}

Kinds == {"ingest", "extract", "ask", "stream", "audit", "webhook", "metrics"}

\* the four answer modes
Modes == {"extract", "ask", "stream", "audit"}

\* ---------------------------------------------------------------- state
VARIABLES
    METRICS,    \* endpoints.METRICS
    index,      \* the vector index: per source, the number of chunks held
    disk,       \* the temporary files in the working directory
    req,        \* per request slot: the handler's locals and position
    loop,       \* the request that owns the event loop, 0 if none
    calls,      \* number of requests received so far
    invoked,    \* per answer mode, number of handler invocations so far
    bg,         \* the background notification tasks, in order of creation
    inc,        \* METRICS[key] += 1, statement by statement, per handler
    rag,        \* the globals of app.core.rag: _vectorstore, _llm, _embeddings
    pinecone,   \* whether the remote index settings.PINECONE_INDEX exists
    thr,        \* the threads that call get_vectorstore() or get_llm()
    proc,       \* the server process: how far "python main.py" has come
    job         \* the input and the results of a pure computation

\* the variables of the request handlers
mainvars == <<METRICS, index, disk, req, loop, calls, invoked, bg>>

\* the variables the request handlers never touch
aside == <<inc, rag, pinecone, thr, proc, job>>

vars == <<mainvars, aside>>

\* the k of each retrieval
KAsk == 4
KExtract == 10
KAudit == 15

Counters == {"documents_ingested", "questions_asked", "risks_audited",
             "webhooks_triggered", "errors"}

METRICS0 == [c \in Counters |-> 0]

\* A collection of chunks is recorded by the number of chunks it holds of
\* each metadata "source"; the text of a chunk plays no part.
NoChunks == [f \in Filenames |-> 0]

RECURSIVE Total(_, _)
Total(b, S) ==
    IF S = {} THEN 0
    ELSE LET f == CHOOSE x \in S : TRUE IN b[f] + Total(b, S \ {f})

Size(b) == Total(b, Filenames)

\* f"temp_{file.filename}"
TempName(f) == "temp_" \o f

Idle ==
    [kind |-> "none", pc |-> "idle", task |-> 0,
     files |-> <<>>, docid |-> "", pos |-> 0,
     pages |-> 0, held |-> 0, nchunks |-> 0,
     processed |-> <<>>, exc |-> "",
     status |-> 0, detail |-> "", body |-> <<>>,
     docs |-> NoChunks, hits |-> -1, citations |-> {},
     events |-> <<>>, produced |-> <<>>, frags |-> 0, seen |-> METRICS0,
     wr |-> <<>>, di0 |-> 0, idx0 |-> NoChunks, errInc |-> 0, llmCalls |-> 0]

MainInit ==
    /\ METRICS = METRICS0
    /\ index = NoChunks
    /\ disk = {}
    /\ req = [r \in Req |-> Idle]
    /\ loop = 0
    /\ calls = 0
    /\ invoked = [k \in Modes |-> 0]
    /\ bg = <<>>

Bump(c) == [METRICS EXCEPT ![c] = @ + 1]

\* ------------------------------------------------------- request arrival
\* The server receives a request and parses it; the handler has not run.
\* Slots are interchangeable: a request takes the first free one.
Receive(r) ==
    /\ req[r].pc = "idle"
    /\ \A q \in Req : q < r => req[q].pc # "idle"
    /\ calls < MaxCalls
    /\ calls' = calls + 1
    /\ \E k \in Kinds :
         \/ /\ k = "ingest"
            /\ \E fs \in Uploads :
                 req' = [req EXCEPT ![r] =
                    [Idle EXCEPT !.kind = k, !.pc = "pending", !.files = fs]]
         \/ /\ k \in {"extract", "audit"}
            /\ \E d \in DocIds :
                 req' = [req EXCEPT ![r] =
                    [Idle EXCEPT !.kind = k, !.pc = "pending",
                                 !.docid = d]]
         \/ /\ k \in {"ask", "stream", "webhook", "metrics"}
            /\ req' = [req EXCEPT ![r] =
                    [Idle EXCEPT !.kind = k, !.pc = "pending"]]
    /\ UNCHANGED <<aside, METRICS, index, disk, loop, invoked, bg>>

\* The handler returns, or an HTTPException leaves it: the outcome is fixed,
\* the handler still owns the event loop.
Respond(rec, status, detail) ==
    [rec EXCEPT !.pc = "return", !.status = status, !.detail = detail]

\* The response is sent: the handler's frame is gone, the event loop and the
\* request slot are free again.  A background task of the response starts
\* now: send_webhook_notification runs up to "await asyncio.sleep(5)".
Return(r) ==
    /\ req[r].pc = "return"
    /\ loop \in {0, r}
    /\ loop' = 0
    /\ req' = [req EXCEPT ![r] = Idle]
    /\ bg' = IF req[r].task # 0 THEN [bg EXCEPT ![req[r].task] = "sleeping"]
                                ELSE bg
    /\ UNCHANGED <<aside, METRICS, index, disk, calls, invoked>>

\* ------------------------------------------------------------ POST /ingest
CurFile(r) == req[r].files[req[r].pos]

\* an exception leaves the try block; doc, text and chunks are not used again
Raise(rec) ==
    [rec EXCEPT !.pc = "ing_except", !.pages = 0, !.held = 0, !.nchunks = 0]

\* the handler is entered: it owns the event loop until it returns
IngEnter(r) ==
    /\ req[r].kind = "ingest" /\ req[r].pc = "pending"
    /\ loop = 0
    /\ loop' = r
    /\ req' = [req EXCEPT ![r] =
            [@ EXCEPT !.pc = "ing_loop", !.pos = 1, !.idx0 = index,
                      !.di0 = METRICS["documents_ingested"]]]
    /\ UNCHANGED <<aside, METRICS, index, disk, calls, invoked, bg>>

\* "for file in files": the next document, or the return after the last
IngLoop(r) ==
    /\ req[r].pc = "ing_loop" /\ loop = r
    /\ IF req[r].pos <= Len(req[r].files)
         THEN req' = [req EXCEPT ![r] = [@ EXCEPT !.pc = "ing_write"]]
         ELSE req' = [req EXCEPT ![r] =
                 [Respond(@, 200, "success") EXCEPT !.body = req[r].processed]]
    /\ UNCHANGED <<aside, METRICS, index, disk, loop, calls, invoked, bg>>

\* open(temp_filename, "wb") creates or truncates the file, whoever made it
Create(path, owner) ==
    {d \in disk : d.path # path} \cup {[path |-> path, owner |-> owner]}

\* with open(temp_filename, "wb") as buffer: shutil.copyfileobj(...)
IngWrite(r) ==
    /\ req[r].pc = "ing_write" /\ loop = r
    /\ \/ /\ disk' = disk                        \* open() fails
          /\ req' = [req EXCEPT ![r] = Raise(@)]
       \/ /\ disk' = Create(TempName(CurFile(r)), r)
          /\ \/ req' = [req EXCEPT ![r] = Raise(@)]  \* copy fails
             \/ req' = [req EXCEPT ![r] = [@ EXCEPT !.pc = "ing_open"]]
    /\ UNCHANGED <<aside, METRICS, index, loop, calls, invoked, bg>>

\* doc = fitz.open(temp_filename)
IngOpen(r) ==
    /\ req[r].pc = "ing_open" /\ loop = r
    /\ \/ req' = [req EXCEPT ![r] = Raise(@)]
       \/ \E p \in PageCounts :
            req' = [req EXCEPT ![r] = [@ EXCEPT !.pc = "ing_extract",
                                                !.pages = p, !.held = 0]]
    /\ UNCHANGED <<aside, METRICS, index, disk, loop, calls, invoked, bg>>

\* text = "".join([page.get_text() for page in doc]): the text of every
\* page of the document is held in memory; doc.close()
IngExtract(r) ==
    /\ req[r].pc = "ing_extract" /\ loop = r
    /\ \/ req' = [req EXCEPT ![r] = Raise(@)]
       \/ req' = [req EXCEPT ![r] = [@ EXCEPT !.pc = "ing_chunk",
                                              !.held = req[r].pages,
                                              !.pages = 0]]
    /\ UNCHANGED <<aside, METRICS, index, disk, loop, calls, invoked, bg>>

\* the splitter cuts the whole text into chunks (none for an empty text),
\* each with metadata {"source": file.filename}
IngChunk(r) ==
    /\ req[r].pc = "ing_chunk" /\ loop = r
    /\ \/ req' = [req EXCEPT ![r] = Raise(@)]
       \/ \E n \in 0..MaxChunks :
            req' = [req EXCEPT ![r] = [@ EXCEPT !.pc = "ing_index",
                                                !.nchunks = n]]
    /\ UNCHANGED <<aside, METRICS, index, disk, loop, calls, invoked, bg>>

\* IngIndex with the increment and the append placed before add_documents:
\* a document is counted although the index write raises
IngIndex_CountsBeforeWrite(r) ==
    /\ req[r].pc = "ing_index" /\ loop = r
    /\ \E w \in 0..req[r].nchunks :
         LET note == Append(req[r].wr, [n |-> req[r].nchunks, w |-> w])
         IN  /\ index' = [index EXCEPT ![CurFile(r)] = @ + w]
             /\ METRICS' = Bump("documents_ingested")
             /\ IF w < req[r].nchunks
                  THEN req' = [req EXCEPT ![r] =
                          [Raise(@) EXCEPT !.wr = note,
                                           !.processed = Append(@, CurFile(r))]]
                  ELSE req' = [req EXCEPT ![r] =
                          [@ EXCEPT !.pc = "ing_finally", !.held = 0,
                                    !.nchunks = 0, !.wr = note,
                                    !.processed = Append(@, CurFile(r))]]
    /\ UNCHANGED <<aside, disk, loop, calls, invoked, bg>>

\* vectorstore.add_documents(chunks): the first w chunks reach the index,
\* each with source = file.filename.  The call returns when all of them
\* did, and raises when it had to leave some out.  wr records, for each
\* document of this call that got this far, how many chunks it had and how
\* many were written.  After the call has returned:
\* METRICS["documents_ingested"] += 1; processed_files.append(file.filename)
IngIndex(r) ==
    /\ req[r].pc = "ing_index" /\ loop = r
    /\ \E w \in 0..req[r].nchunks :
         LET note == Append(req[r].wr, [n |-> req[r].nchunks, w |-> w])
         IN  /\ index' = [index EXCEPT ![CurFile(r)] = @ + w]
             /\ IF w < req[r].nchunks
                  THEN /\ req' = [req EXCEPT ![r] =
                              [Raise(@) EXCEPT !.wr = note]]
                       /\ METRICS' = METRICS
                  ELSE /\ req' = [req EXCEPT ![r] =
                              [@ EXCEPT !.pc = "ing_finally", !.held = 0,
                                        !.nchunks = 0, !.wr = note,
                                        !.processed = Append(@, CurFile(r))]]
                       /\ METRICS' = Bump("documents_ingested")
    /\ UNCHANGED <<aside, disk, loop, calls, invoked, bg>>

\* IngExcept that also undoes what the call has written to the index
IngExcept_Rollback(r) ==
    /\ req[r].pc = "ing_except" /\ loop = r
    /\ METRICS' = Bump("errors")
    /\ index' = req[r].idx0
    /\ req' = [req EXCEPT ![r] =
            [@ EXCEPT !.pc = "ing_finally", !.errInc = @ + 1,
                      !.exc = "HTTP500"]]
    /\ UNCHANGED <<aside, disk, loop, calls, invoked, bg>>

\* except Exception: METRICS["errors"] += 1; raise HTTPException(500)
IngExcept(r) ==
    /\ req[r].pc = "ing_except" /\ loop = r
    /\ METRICS' = Bump("errors")
    /\ req' = [req EXCEPT ![r] =
            [@ EXCEPT !.pc = "ing_finally", !.errInc = @ + 1,
                      !.exc = "HTTP500"]]
    /\ UNCHANGED <<aside, index, disk, loop, calls, invoked, bg>>

\* if os.path.exists(temp_filename): os.remove(temp_filename)
Remove(path) == {d \in disk : d.path # path}

\* IngFinally with the removal after the try block instead of in "finally":
\* an exception leaves the handler before the file is removed
IngFinally_KeepsFileOnError(r) ==
    /\ req[r].pc = "ing_finally" /\ loop = r
    /\ IF req[r].exc # ""
         THEN /\ disk' = disk
              /\ req' = [req EXCEPT ![r] = Respond(@, 500, "Error processing")]
         ELSE /\ disk' = Remove(TempName(CurFile(r)))
              /\ req' = [req EXCEPT ![r] =
                      [@ EXCEPT !.pc = "ing_loop", !.pos = @ + 1]]
    /\ UNCHANGED <<aside, METRICS, index, loop, calls, invoked, bg>>

\* finally: the temporary file goes; then the pending HTTPException leaves
\* the handler, or the loop goes on with the next document
IngFinally(r) ==
    /\ req[r].pc = "ing_finally" /\ loop = r
    /\ disk' = Remove(TempName(CurFile(r)))
    /\ IF req[r].exc # ""
         THEN req' = [req EXCEPT ![r] = Respond(@, 500, "Error processing")]
         ELSE req' = [req EXCEPT ![r] =
                 [@ EXCEPT !.pc = "ing_loop", !.pos = @ + 1]]
    /\ UNCHANGED <<aside, METRICS, index, loop, calls, invoked, bg>>

\* ------------------------------------------------------------- retrieval
Min(a, b) == IF a < b THEN a ELSE b

\* filter = {"source": document_id}: the chunks of that source
Matching(d) == [f \in Filenames |-> IF f = d THEN index[f] ELSE 0]

\* the possible answers of the index to a top-k query over the candidates:
\* k chunks, or all candidates when there are fewer (which ones is the
\* ranking's business)
TopK(cands, k) ==
    {ds \in [Filenames -> 0..k] :
        /\ \A f \in Filenames : ds[f] <= cands[f]
        /\ Size(ds) = Min(k, Size(cands))}

\* ----------------------------------------------------------- POST /extract
ExtEnter(r) ==
    /\ req[r].kind = "extract" /\ req[r].pc = "pending"
    /\ loop = 0
    /\ loop' = r
    /\ invoked' = [invoked EXCEPT !["extract"] = @ + 1]
    /\ req' = [req EXCEPT ![r] = [@ EXCEPT !.pc = "ext_retrieve"]]
    /\ UNCHANGED <<aside, METRICS, index, disk, calls, bg>>

\* retriever.invoke(...); "if not docs: raise HTTPException(404)"; otherwise
\* the prompt is built and "await structured_llm.ainvoke(prompt)" starts the
\* model call and gives up the event loop
ExtRetrieve(r) ==
    /\ req[r].pc = "ext_retrieve" /\ loop = r
    /\ \/ /\ req' = [req EXCEPT ![r] =
                 [@ EXCEPT !.pc = "ext_except", !.exc = "Exception"]]
          /\ loop' = loop
       \/ \E ds \in TopK(Matching(req[r].docid), KExtract) :
            IF Size(ds) = 0
              THEN /\ req' = [req EXCEPT ![r] =
                        [@ EXCEPT !.pc = "ext_except", !.exc = "HTTP404",
                                  !.hits = 0]]
                   /\ loop' = loop
              ELSE /\ req' = [req EXCEPT ![r] =
                        [@ EXCEPT !.pc = "ext_await", !.docs = ds,
                                  !.hits = Size(ds), !.llmCalls = @ + 1]]
                   /\ loop' = 0
    /\ UNCHANGED <<aside, METRICS, index, disk, calls, invoked, bg>>

\* the awaited model call ends: "return result", or it raises
ExtResume(r) ==
    /\ req[r].pc = "ext_await" /\ loop = 0
    /\ loop' = r
    /\ \/ req' = [req EXCEPT ![r] = Respond(@, 200, "ok")]
       \/ req' = [req EXCEPT ![r] =
              [@ EXCEPT !.pc = "ext_except", !.exc = "Exception"]]
    /\ UNCHANGED <<aside, METRICS, index, disk, calls, invoked, bg>>

\* except Exception (HTTPException is one): METRICS["errors"] += 1;
\* raise HTTPException(500, "Extraction failed")
ExtExcept(r) ==
    /\ req[r].pc = "ext_except" /\ loop = r
    /\ METRICS' = Bump("errors")
    /\ req' = [req EXCEPT ![r] =
            [Respond(@, 500, "Extraction failed") EXCEPT !.errInc = @ + 1]]
    /\ UNCHANGED <<aside, index, disk, loop, calls, invoked, bg>>

\* --------------------------------------------------------------- POST /ask
\* AskEnter without the increment
AskEnter_NoCount(r) ==
    /\ req[r].kind = "ask" /\ req[r].pc = "pending"
    /\ loop = 0
    /\ loop' = r
    /\ invoked' = [invoked EXCEPT !["ask"] = @ + 1]
    /\ req' = [req EXCEPT ![r] = [@ EXCEPT !.pc = "ask_retrieve"]]
    /\ UNCHANGED <<aside, METRICS, index, disk, calls, bg>>

\* METRICS["questions_asked"] += 1 is the first statement of the handler
AskEnter(r) ==
    /\ req[r].kind = "ask" /\ req[r].pc = "pending"
    /\ loop = 0
    /\ loop' = r
    /\ invoked' = [invoked EXCEPT !["ask"] = @ + 1]
    /\ METRICS' = Bump("questions_asked")
    /\ req' = [req EXCEPT ![r] = [@ EXCEPT !.pc = "ask_retrieve"]]
    /\ UNCHANGED <<aside, index, disk, calls, bg>>

\* docs = vectorstore.similarity_search(req.question, k=4)
AskRetrieve(r) ==
    /\ req[r].pc = "ask_retrieve" /\ loop = r
    /\ \/ req' = [req EXCEPT ![r] =
              [@ EXCEPT !.pc = "ask_except", !.exc = "Exception"]]
       \/ \E ds \in TopK(index, KAsk) :
            req' = [req EXCEPT ![r] = [@ EXCEPT !.pc = "ask_llm", !.docs = ds,
                                                !.hits = Size(ds)]]
    /\ UNCHANGED <<aside, METRICS, index, disk, loop, calls, invoked, bg>>

\* response = llm.invoke(messages); the citations are the set of sources
AskInvoke(r) ==
    /\ req[r].pc = "ask_llm" /\ loop = r
    /\ \/ req' = [req EXCEPT ![r] =
              [@ EXCEPT !.pc = "ask_except", !.exc = "Exception", !.llmCalls = @ + 1]]
       \/ req' = [req EXCEPT ![r] =
              [Respond(@, 200, "ok") EXCEPT
                  !.llmCalls = @ + 1,
                  !.citations = {f \in Filenames : req[r].docs[f] > 0}]]
    /\ UNCHANGED <<aside, METRICS, index, disk, loop, calls, invoked, bg>>

\* except Exception: METRICS["errors"] += 1; raise HTTPException(500)
AskExcept(r) ==
    /\ req[r].pc = "ask_except" /\ loop = r
    /\ METRICS' = Bump("errors")
    /\ req' = [req EXCEPT ![r] =
            [Respond(@, 500, "Q&A processing failed") EXCEPT !.errInc = @ + 1]]
    /\ UNCHANGED <<aside, index, disk, loop, calls, invoked, bg>>

\* ---------------------------------------------------------- GET /ask/stream
StrEnter(r) ==
    /\ req[r].kind = "stream" /\ req[r].pc = "pending"
    /\ loop = 0
    /\ loop' = r
    /\ invoked' = [invoked EXCEPT !["stream"] = @ + 1]
    /\ METRICS' = Bump("questions_asked")
    /\ req' = [req EXCEPT ![r] = [@ EXCEPT !.pc = "str_retrieve"]]
    /\ UNCHANGED <<aside, index, disk, calls, bg>>

\* similarity_search; then "return StreamingResponse(event_generator())":
\* the 200 response starts and the generator runs outside the try block
StrRetrieve(r) ==
    /\ req[r].pc = "str_retrieve" /\ loop = r
    /\ \/ /\ req' = [req EXCEPT ![r] =
                 [@ EXCEPT !.pc = "str_except", !.exc = "Exception"]]
          /\ loop' = loop
       \/ \E ds \in TopK(index, KAsk) :
            /\ req' = [req EXCEPT ![r] =
                   [@ EXCEPT !.pc = "str_gen", !.docs = ds,
                             !.hits = Size(ds), !.status = 200]]
            /\ loop' = 0
    /\ UNCHANGED <<aside, METRICS, index, disk, calls, invoked, bg>>

\* except Exception: logger.error(...); raise HTTPException(500)
StrExcept(r) ==
    /\ req[r].pc = "str_except" /\ loop = r
    /\ req' = [req EXCEPT ![r] = Respond(@, 500, "Streaming failed")]
    /\ UNCHANGED <<aside, METRICS, index, disk, loop, calls, invoked, bg>>

\* StrFragment without "if chunk.content": empty fragments are forwarded too
StrFragment_ForwardsEmpty(r) ==
    /\ req[r].pc = "str_gen" /\ loop = 0
    /\ req[r].frags < MaxFrags
    /\ \E f \in Fragments :
         req' = [req EXCEPT ![r] =
            [@ EXCEPT !.frags = @ + 1, !.llmCalls = 1,
                      !.produced = Append(@, f),
                      !.events = Append(@, f)]]
    /\ UNCHANGED <<aside, METRICS, index, disk, loop, calls, invoked, bg>>

\* async for chunk in llm.astream(messages): if chunk.content: yield ...
\* The model produces its next fragment (produced records them all) and the
\* generator yields it at once if it is not empty.
StrFragment(r) ==
    /\ req[r].pc = "str_gen" /\ loop = 0
    /\ req[r].frags < MaxFrags
    /\ \E f \in Fragments :
         req' = [req EXCEPT ![r] =
            [@ EXCEPT !.frags = @ + 1, !.llmCalls = 1,
                      !.produced = Append(@, f),
                      !.events = IF f # "" THEN Append(@, f) ELSE @]]
    /\ UNCHANGED <<aside, METRICS, index, disk, loop, calls, invoked, bg>>

\* the model raises while streaming: the exception leaves the generator,
\* the response breaks off
StrFail(r) ==
    /\ req[r].pc = "str_gen" /\ loop = 0
    /\ req' = [req EXCEPT ![r] =
            [@ EXCEPT !.pc = "return", !.exc = "Exception",
                      !.llmCalls = 1, !.detail = "stream broken"]]
    /\ UNCHANGED <<aside, METRICS, index, disk, loop, calls, invoked, bg>>

\* the model's stream ends: yield "data: [DONE]\n\n"
StrDone(r) ==
    /\ req[r].pc = "str_gen" /\ loop = 0
    /\ req' = [req EXCEPT ![r] =
            [@ EXCEPT !.pc = "return", !.detail = "ok", !.llmCalls = 1,
                      !.events = Append(@, "[DONE]")]]
    /\ UNCHANGED <<aside, METRICS, index, disk, loop, calls, invoked, bg>>

\* ------------------------------------------------------------- POST /audit
AudEnter(r) ==
    /\ req[r].kind = "audit" /\ req[r].pc = "pending"
    /\ loop = 0
    /\ loop' = r
    /\ invoked' = [invoked EXCEPT !["audit"] = @ + 1]
    /\ METRICS' = Bump("risks_audited")
    /\ req' = [req EXCEPT ![r] = [@ EXCEPT !.pc = "aud_retrieve"]]
    /\ UNCHANGED <<aside, index, disk, calls, bg>>

\* retriever.invoke(...); AUDIT_PROMPT.format(context=...) whatever docs is;
\* "await structured_llm.ainvoke(formatted_prompt)" starts the model call
AudRetrieve(r) ==
    /\ req[r].pc = "aud_retrieve" /\ loop = r
    /\ \/ /\ req' = [req EXCEPT ![r] =
                 [@ EXCEPT !.pc = "aud_except", !.exc = "Exception"]]
          /\ loop' = loop
       \/ \E ds \in TopK(Matching(req[r].docid), KAudit) :
            /\ req' = [req EXCEPT ![r] =
                   [@ EXCEPT !.pc = "aud_await", !.docs = ds,
                             !.hits = Size(ds), !.llmCalls = @ + 1]]
            /\ loop' = 0
    /\ UNCHANGED <<aside, METRICS, index, disk, calls, invoked, bg>>

AudResume(r) ==
    /\ req[r].pc = "aud_await" /\ loop = 0
    /\ loop' = r
    /\ \/ req' = [req EXCEPT ![r] = Respond(@, 200, "ok")]
       \/ req' = [req EXCEPT ![r] =
              [@ EXCEPT !.pc = "aud_except", !.exc = "Exception"]]
    /\ UNCHANGED <<aside, METRICS, index, disk, calls, invoked, bg>>

\* except Exception: METRICS["errors"] += 1; raise HTTPException(500)
AudExcept(r) ==
    /\ req[r].pc = "aud_except" /\ loop = r
    /\ METRICS' = Bump("errors")
    /\ req' = [req EXCEPT ![r] =
            [Respond(@, 500, "Audit processing failed") EXCEPT !.errInc = @ + 1]]
    /\ UNCHANGED <<aside, index, disk, loop, calls, invoked, bg>>

\* ---------------------------------------------------- POST /webhook/events
\* the handler has no await: count, add the task, acknowledge
WebEnter(r) ==
    /\ req[r].kind = "webhook" /\ req[r].pc = "pending"
    /\ loop = 0
    /\ METRICS' = Bump("webhooks_triggered")
    /\ bg' = Append(bg, "queued")
    /\ req' = [req EXCEPT ![r] =
            [Respond(@, 200, "processing_started") EXCEPT !.task = Len(bg) + 1]]
    /\ loop' = r
    /\ UNCHANGED <<aside, index, disk, calls, invoked>>

\* send_webhook_notification: "await asyncio.sleep(5)" is over,
\* "await client.post(url, json=result_data, timeout=10.0)" is under way
BgPost(c) ==
    /\ bg[c] = "sleeping" /\ loop = 0
    /\ bg' = [bg EXCEPT ![c] = "posting"]
    /\ UNCHANGED <<aside, METRICS, index, disk, req, loop, calls, invoked>>

\* BgEnd that goes back to wait and post again after a failed POST
BgEnd_Retries(c) ==
    /\ bg[c] = "posting" /\ loop = 0
    /\ \E outcome \in {"sent", "sleeping"} : bg' = [bg EXCEPT ![c] = outcome]
    /\ UNCHANGED <<aside, METRICS, index, disk, req, loop, calls, invoked>>

\* the POST returns (logged) or raises (caught and logged)
BgEnd(c) ==
    /\ bg[c] = "posting" /\ loop = 0
    /\ \E outcome \in {"sent", "failed"} : bg' = [bg EXCEPT ![c] = outcome]
    /\ UNCHANGED <<aside, METRICS, index, disk, req, loop, calls, invoked>>

\* The task that runs the notification is cancelled (BackgroundTasks run in
\* the task of the request that added them): CancelledError is raised at
\* the await the notification is suspended in, "await asyncio.sleep(5)" or
\* "await client.post(...)".  It is no Exception, so "except Exception" does
\* not catch it, and the sleep is outside the try block: the coroutine ends
\* there.
BgCancel(c) ==
    /\ bg[c] \in {"sleeping", "posting"} /\ loop = 0
    /\ bg' = [bg EXCEPT ![c] = "cancelled"]
    /\ UNCHANGED <<aside, METRICS, index, disk, req, loop, calls, invoked>>

\* ------------------------------------------------------------ GET /metrics
\* GetMetrics as a read-and-reset
GetMetrics_Reset(r) ==
    /\ req[r].kind = "metrics" /\ req[r].pc = "pending"
    /\ req' = [req EXCEPT ![r] =
            [Respond(@, 200, "ok") EXCEPT !.seen = METRICS]]
    /\ METRICS' = METRICS0
    /\ UNCHANGED <<aside, index, disk, loop, calls, invoked, bg>>

\* "def get_metrics(): return METRICS", run in a worker thread: it needs no
\* turn of the event loop and sees the counters as they are
GetMetrics(r) ==
    /\ req[r].kind = "metrics" /\ req[r].pc = "pending"
    /\ req' = [req EXCEPT ![r] =
            [Respond(@, 200, "ok") EXCEPT !.seen = METRICS]]
    /\ UNCHANGED <<aside, METRICS, index, disk, loop, calls, invoked, bg>>

\* ------------------------------------------------------------------ system
Next ==
    \/ \E r \in Req : Receive(r)
    \/ \E r \in Req : Return(r)
    \/ \E r \in Req : IngEnter(r)
    \/ \E r \in Req : IngLoop(r)
    \/ \E r \in Req : IngWrite(r)
    \/ \E r \in Req : IngOpen(r)
    \/ \E r \in Req : IngExtract(r)
    \/ \E r \in Req : IngChunk(r)
    \/ \E r \in Req : IngIndex(r)
    \/ \E r \in Req : IngExcept(r)
    \/ \E r \in Req : IngFinally(r)
    \/ \E r \in Req : ExtEnter(r)
    \/ \E r \in Req : ExtRetrieve(r)
    \/ \E r \in Req : ExtResume(r)
    \/ \E r \in Req : ExtExcept(r)
    \/ \E r \in Req : AskEnter(r)
    \/ \E r \in Req : AskRetrieve(r)
    \/ \E r \in Req : AskInvoke(r)
    \/ \E r \in Req : AskExcept(r)
    \/ \E r \in Req : StrEnter(r)
    \/ \E r \in Req : StrRetrieve(r)
    \/ \E r \in Req : StrExcept(r)
    \/ \E r \in Req : StrFragment(r)
    \/ \E r \in Req : StrFail(r)
    \/ \E r \in Req : StrDone(r)
    \/ \E r \in Req : AudEnter(r)
    \/ \E r \in Req : AudRetrieve(r)
    \/ \E r \in Req : AudResume(r)
    \/ \E r \in Req : AudExcept(r)
    \/ \E r \in Req : WebEnter(r)
    \/ \E c \in DOMAIN bg : BgPost(c)
    \/ \E c \in DOMAIN bg : BgEnd(c)
    \/ \E c \in DOMAIN bg : BgCancel(c)
    \/ \E r \in Req : GetMetrics(r)

\* ==================================================== counter increments
\* METRICS[key] += 1 is three steps of the interpreter: the value is read,
\* one is added, the sum is written back.  Here every increment of a
\* handler is a read (IncLoad) and a write (IncStore), and a handler runs on
\* the event loop from its entry to its next await or its return.  What a
\* handler does to the counters, in program order:
Prog(kind) ==
    CASE kind = "ask"     -> <<"questions_asked">>
      [] kind = "stream"  -> <<"questions_asked", "await">>
      [] kind = "webhook" -> <<"webhooks_triggered">>
      [] kind = "audit"   -> <<"risks_audited", "await", "errors">>

IncKinds == {"ask", "stream", "webhook", "audit"}

Hnd == 1..NHnd

\* conc: the handler was in flight together with another one
IncInit == inc = [h \in Hnd |-> [kind |-> "none", st |-> "pending", ip |-> 0,
                                 reg |-> 0, susp |-> FALSE, conc |-> FALSE]]

InFlight(h) == inc[h].st \notin {"pending", "done"}

Op(h) == Prog(inc[h].kind)[inc[h].ip]

OnLoop(h) == loop = h /\ ~ inc[h].susp

\* a request arrives and its handler is entered when the loop is free
IncEnter(h) ==
    /\ inc[h].st = "pending" /\ loop = 0
    /\ \A g \in Hnd : g < h => inc[g].st # "pending"
    /\ loop' = h
    /\ \E k \in IncKinds :
         inc' = [g \in Hnd |->
                    IF g = h
                      THEN [inc[h] EXCEPT !.kind = k, !.st = "ready", !.ip = 1,
                                !.conc = \E o \in Hnd : InFlight(o)]
                      ELSE [inc[g] EXCEPT !.conc = @ \/ InFlight(g)]]
    /\ UNCHANGED <<METRICS, index, disk, req, calls, invoked, bg,
                   rag, pinecone, thr, proc, job>>

\* IncLoad in a handler that awaits between the read and the write
IncLoad_ThenAwaits(h) ==
    /\ inc[h].st = "ready" /\ OnLoop(h)
    /\ inc[h].ip <= Len(Prog(inc[h].kind)) /\ Op(h) \in Counters
    /\ inc' = [inc EXCEPT ![h] =
            [@ EXCEPT !.st = "loaded", !.reg = METRICS[Op(h)], !.susp = TRUE]]
    /\ loop' = 0
    /\ UNCHANGED <<METRICS, index, disk, req, calls, invoked, bg,
                   rag, pinecone, thr, proc, job>>

\* the read of METRICS[key]
IncLoad(h) ==
    /\ inc[h].st = "ready" /\ OnLoop(h)
    /\ inc[h].ip <= Len(Prog(inc[h].kind)) /\ Op(h) \in Counters
    /\ inc' = [inc EXCEPT ![h] = [@ EXCEPT !.st = "loaded", !.reg = METRICS[Op(h)]]]
    /\ UNCHANGED <<METRICS, index, disk, req, loop, calls, invoked, bg,
                   rag, pinecone, thr, proc, job>>

\* the write of the sum
IncStore(h) ==
    /\ inc[h].st = "loaded" /\ OnLoop(h)
    /\ METRICS' = [METRICS EXCEPT ![Op(h)] = inc[h].reg + 1]
    /\ inc' = [inc EXCEPT ![h] = [@ EXCEPT !.st = "ready", !.ip = @ + 1]]
    /\ UNCHANGED <<index, disk, req, loop, calls, invoked, bg,
                   rag, pinecone, thr, proc, job>>

\* "await ...": the handler is suspended and the loop is free
IncAwait(h) ==
    /\ inc[h].st = "ready" /\ OnLoop(h)
    /\ inc[h].ip <= Len(Prog(inc[h].kind)) /\ Op(h) = "await"
    /\ inc' = [inc EXCEPT ![h] = [@ EXCEPT !.susp = TRUE, !.ip = @ + 1]]
    /\ loop' = 0
    /\ UNCHANGED <<METRICS, index, disk, req, calls, invoked, bg,
                   rag, pinecone, thr, proc, job>>

\* what was awaited is there: the handler goes on when the loop is free
IncResume(h) ==
    /\ inc[h].susp /\ loop = 0
    /\ inc' = [inc EXCEPT ![h] = [@ EXCEPT !.susp = FALSE]]
    /\ loop' = h
    /\ UNCHANGED <<METRICS, index, disk, req, calls, invoked, bg,
                   rag, pinecone, thr, proc, job>>

\* the handler returns or raises its HTTPException
IncReturn(h) ==
    /\ inc[h].st = "ready" /\ OnLoop(h)
    /\ inc[h].ip > Len(Prog(inc[h].kind))
    /\ inc' = [inc EXCEPT ![h] = [@ EXCEPT !.st = "done"]]
    /\ loop' = 0
    /\ UNCHANGED <<METRICS, index, disk, req, calls, invoked, bg,
                   rag, pinecone, thr, proc, job>>

NextInc ==
    \/ \E h \in Hnd : IncEnter(h)
    \/ \E h \in Hnd : IncLoad(h)
    \/ \E h \in Hnd : IncStore(h)
    \/ \E h \in Hnd : IncAwait(h)
    \/ \E h \in Hnd : IncResume(h)
    \/ \E h \in Hnd : IncReturn(h)

\* ======================================================= app.core.rag
\* The three globals start as None (0 here); a handle is the number of the
\* thread that constructed it.  get_vectorstore and get_llm are plain
\* functions without a lock: threads that call them run line by line in
\* any interleaving.
RagUnset == [vectorstore |-> 0, llm |-> 0, embeddings |-> 0]

Thr == 1..NThr

\* fn: the function called; out: how the call ended ("returned", or "raised"
\* for an exception); ret: the handle it returned; other: the other handle
\* as it was when the call ended;
\* exists: the local existing_indexes; ran: how many times the thread went
\* past the check of initialize_rag
ThrIdle == [pc |-> "idle", fn |-> "none", gets |-> 0, out |-> "none",
            ret |-> 0, other |-> 0, exists |-> FALSE, ran |-> 0]

RagInit == rag = RagUnset /\ pinecone = FALSE /\ thr = [t \in Thr |-> ThrIdle]

Getters == {"get_vectorstore", "get_llm"}

Handle(fn) == IF fn = "get_vectorstore" THEN rag.vectorstore ELSE rag.llm
OtherHandle(fn) == IF fn = "get_vectorstore" THEN rag.llm ELSE rag.vectorstore

RagRest == <<mainvars, inc, proc, job>>

\* a thread calls get_vectorstore() or get_llm()
GetCall(t) ==
    /\ thr[t].pc \in {"idle", "returned"}
    /\ thr[t].gets < MaxGets
    /\ \E fn \in Getters :
         thr' = [thr EXCEPT ![t] = [@ EXCEPT !.pc = "get", !.fn = fn,
                                             !.gets = @ + 1, !.out = "none",
                                             !.ret = 0, !.other = 0]]
    /\ UNCHANGED <<rag, pinecone, RagRest>>

\* "if _vectorstore is None: initialize_rag()" / "if _llm is None: ..."
GetCheck(t) ==
    /\ thr[t].pc = "get"
    /\ thr' = [thr EXCEPT ![t] =
            [@ EXCEPT !.pc = IF Handle(thr[t].fn) = 0 THEN "init" ELSE "get_ret"]]
    /\ UNCHANGED <<rag, pinecone, RagRest>>

\* "if _vectorstore is not None and _llm is not None: return ..."
InitCheck(t) ==
    /\ thr[t].pc = "init"
    /\ IF rag.vectorstore # 0 /\ rag.llm # 0
         THEN thr' = [thr EXCEPT ![t] = [@ EXCEPT !.pc = "get_ret"]]
         ELSE thr' = [thr EXCEPT ![t] = [@ EXCEPT !.pc = "list", !.ran = @ + 1]]
    /\ UNCHANGED <<rag, pinecone, RagRest>>

\* pc = Pinecone(...); existing_indexes = [... pc.list_indexes()]
InitList(t) ==
    /\ thr[t].pc = "list"
    /\ \/ thr' = [thr EXCEPT ![t] = [@ EXCEPT !.pc = "except"]]
       \/ thr' = [thr EXCEPT ![t] = [@ EXCEPT !.pc = "create",
                                              !.exists = pinecone]]
    /\ UNCHANGED <<rag, pinecone, RagRest>>

\* "if settings.PINECONE_INDEX not in existing_indexes: pc.create_index(...)",
\* which raises if the index exists by now
InitCreate(t) ==
    /\ thr[t].pc = "create"
    /\ IF thr[t].exists
         THEN /\ thr' = [thr EXCEPT ![t] = [@ EXCEPT !.pc = "embed"]]
              /\ pinecone' = pinecone
         ELSE IF pinecone
           THEN /\ thr' = [thr EXCEPT ![t] = [@ EXCEPT !.pc = "except"]]
                /\ pinecone' = pinecone
           ELSE \/ /\ thr' = [thr EXCEPT ![t] = [@ EXCEPT !.pc = "except"]]
                   /\ pinecone' = pinecone
                \/ /\ thr' = [thr EXCEPT ![t] = [@ EXCEPT !.pc = "embed"]]
                   /\ pinecone' = TRUE
    /\ UNCHANGED <<rag, RagRest>>

\* _embeddings = FastEmbedEmbeddings(...)
InitEmbed(t) ==
    /\ thr[t].pc = "embed"
    /\ \/ /\ thr' = [thr EXCEPT ![t] = [@ EXCEPT !.pc = "except"]]
          /\ rag' = rag
       \/ /\ thr' = [thr EXCEPT ![t] = [@ EXCEPT !.pc = "store"]]
          /\ rag' = [rag EXCEPT !.embeddings = t]
    /\ UNCHANGED <<pinecone, RagRest>>

\* _vectorstore = PineconeVectorStore(...)
InitStore(t) ==
    /\ thr[t].pc = "store"
    /\ \/ /\ thr' = [thr EXCEPT ![t] = [@ EXCEPT !.pc = "except"]]
          /\ rag' = rag
       \/ /\ thr' = [thr EXCEPT ![t] = [@ EXCEPT !.pc = "llm"]]
          /\ rag' = [rag EXCEPT !.vectorstore = t]
    /\ UNCHANGED <<pinecone, RagRest>>

\* _llm = ChatGroq(...)
InitLlm(t) ==
    /\ thr[t].pc = "llm"
    /\ \/ /\ thr' = [thr EXCEPT ![t] = [@ EXCEPT !.pc = "except"]]
          /\ rag' = rag
       \/ /\ thr' = [thr EXCEPT ![t] = [@ EXCEPT !.pc = "init_ret"]]
          /\ rag' = [rag EXCEPT !.llm = t]
    /\ UNCHANGED <<pinecone, RagRest>>

\* "return _vectorstore, _llm": back in the getter, which ignores the pair
InitReturn(t) ==
    /\ thr[t].pc = "init_ret"
    /\ thr' = [thr EXCEPT ![t] = [@ EXCEPT !.pc = "get_ret"]]
    /\ UNCHANGED <<rag, pinecone, RagRest>>

\* "except Exception as e: logger.critical(...); raise e": the exception
\* leaves initialize_rag and the getter; the globals stay as they are
InitExcept(t) ==
    /\ thr[t].pc = "except"
    /\ thr' = [thr EXCEPT ![t] = [@ EXCEPT !.pc = "returned", !.out = "raised",
                                           !.other = OtherHandle(thr[t].fn)]]
    /\ UNCHANGED <<rag, pinecone, RagRest>>

\* "return _vectorstore" / "return _llm": the global as it is now
GetReturn(t) ==
    /\ thr[t].pc = "get_ret"
    /\ thr' = [thr EXCEPT ![t] = [@ EXCEPT !.pc = "returned",
                                           !.out = "returned",
                                           !.ret = Handle(thr[t].fn),
                                           !.other = OtherHandle(thr[t].fn)]]
    /\ UNCHANGED <<rag, pinecone, RagRest>>

NextRag ==
    \/ \E t \in Thr : GetCall(t)
    \/ \E t \in Thr : GetCheck(t)
    \/ \E t \in Thr : InitCheck(t)
    \/ \E t \in Thr : InitList(t)
    \/ \E t \in Thr : InitCreate(t)
    \/ \E t \in Thr : InitEmbed(t)
    \/ \E t \in Thr : InitStore(t)
    \/ \E t \in Thr : InitLlm(t)
    \/ \E t \in Thr : InitReturn(t)
    \/ \E t \in Thr : InitExcept(t)
    \/ \E t \in Thr : GetReturn(t)

\* The same functions called one call after the other: a call starts only
\* when no other call is under way.
NoCallUnderWay == \A t \in Thr : thr[t].pc \in {"idle", "returned"}

GetCallAlone(t) == NoCallUnderWay /\ GetCall(t)

NextRagSerial ==
    \/ \E t \in Thr : GetCallAlone(t)
    \/ \E t \in Thr : GetCheck(t)
    \/ \E t \in Thr : InitCheck(t)
    \/ \E t \in Thr : InitList(t)
    \/ \E t \in Thr : InitCreate(t)
    \/ \E t \in Thr : InitEmbed(t)
    \/ \E t \in Thr : InitStore(t)
    \/ \E t \in Thr : InitLlm(t)
    \/ \E t \in Thr : InitReturn(t)
    \/ \E t \in Thr : InitExcept(t)
    \/ \E t \in Thr : GetReturn(t)

\* ============================================================== start-up
\* "python main.py" (or "from main import app"): the interpreter runs the
\* module bodies in import order.  main.py imports app.api.endpoints, that
\* imports two names from app.core.rag, that imports settings from
\* app.core.config.

\* the names app/core/rag.py binds at module level
RagNames ==
    {"logging", "Pinecone", "ServerlessSpec", "ChatGroq", "FastEmbedEmbeddings",
     "PineconeVectorStore", "settings", "logger", "_vectorstore", "_llm",
     "_embeddings", "initialize_rag", "get_vectorstore", "get_llm"}

\* from app.core.rag import vectorstore, llm
ImportedNames == {"vectorstore", "llm"}

\* env: the API keys are configured; names: the namespace of app.core.rag;
\* probes: the GET /healthz requests sent so far and their answers
ProcOff == [stage |-> "off", env |-> FALSE, starts |-> 0, names |-> {},
            error |-> "", probes |-> <<>>]

ProcInit == proc = ProcOff

BootRest == <<mainvars, inc, rag, pinecone, thr, job>>

Crash(p, e) == [p EXCEPT !.stage = "crashed", !.error = e, !.names = {}]

\* the process is started: main.py begins with its imports
Start ==
    /\ proc.stage \in {"off", "crashed"}
    /\ proc.starts < MaxStarts
    /\ \E e \in BOOLEAN :
         proc' = [proc EXCEPT !.stage = "main", !.env = e, !.starts = @ + 1,
                              !.error = ""]
    /\ UNCHANGED BootRest

\* main.py: from app.api.endpoints import router
ImportEndpoints ==
    /\ proc.stage = "main"
    /\ proc' = [proc EXCEPT !.stage = "endpoints"]
    /\ UNCHANGED BootRest

\* endpoints.py: "from app.core.rag import ..." runs rag.py, whose
\* "from app.core.config import settings" runs "settings = Settings()":
\* a validation error unless both API keys are configured
ImportRag ==
    /\ proc.stage = "endpoints"
    /\ proc' = IF proc.env THEN [proc EXCEPT !.stage = "rag"]
                           ELSE Crash(proc, "ValidationError")
    /\ UNCHANGED BootRest

\* the body of rag.py: the three globals are None, the three functions are
\* defined; nothing is initialised
DefineRag ==
    /\ proc.stage = "rag"
    /\ proc' = [proc EXCEPT !.stage = "bind", !.names = RagNames]
    /\ rag = RagUnset
    /\ UNCHANGED BootRest

\* "... import vectorstore, llm": each name is looked up in the module, a
\* missing one is an ImportError that ends the process; otherwise the rest
\* of endpoints.py and main.py runs (router, app, middleware, /healthz) and
\* uvicorn serves
BindNames ==
    /\ proc.stage = "bind"
    /\ proc' = IF ImportedNames \subseteq proc.names
                 THEN [proc EXCEPT !.stage = "serving"]
                 ELSE Crash(proc, "ImportError")
    /\ UNCHANGED BootRest

\* "def health(): return {"status": "ok", "env": "production"}"
health == [code |-> 200, status |-> "ok"]

\* a client sends GET /healthz after the start-up has come to its end: the
\* route answers if the application is served, nobody answers otherwise
Probe ==
    /\ proc.stage \in {"serving", "crashed"}
    /\ Len(proc.probes) < MaxProbes
    /\ LET answer == IF proc.stage = "serving" THEN health
                     ELSE [code |-> 0, status |-> "connection refused"]
       IN  proc' = [proc EXCEPT !.probes =
                      Append(@, [start |-> proc.starts, env |-> proc.env,
                                 answer |-> answer])]
    /\ UNCHANGED BootRest

NextBoot ==
    \/ Start
    \/ ImportEndpoints
    \/ ImportRag
    \/ DefineRag
    \/ BindNames
    \/ Probe

\* ================================================================ chunker
\* text_splitter = RecursiveCharacterTextSplitter(chunk_size=1000,
\* chunk_overlap=100); chunks = text_splitter.create_documents([text], ...).
\* A text is a sequence of characters.  The sizes are scaled down to texts
\* of a few characters, and of the splitter's separators "\n\n", "\n", " ",
\* "" the first is left out (the texts have no blank line to prefer).
Chars == {"a", " ", "\n"}
Texts == SeqsUpTo(Chars, MaxText)
Separators == <<"\n", " ", "">>
Whitespace == {" ", "\n"}

\* re.split with the separator kept at the start of the piece after it;
\* empty pieces are dropped
RECURSIVE PiecesFrom(_, _, _, _)
PiecesFrom(text, sep, i, cur) ==
    LET closed == IF cur = <<>> THEN <<>> ELSE <<cur>> IN
    IF i > Len(text) THEN closed
    ELSE IF text[i] = sep
           THEN closed \o PiecesFrom(text, sep, i + 1, <<sep>>)
           ELSE PiecesFrom(text, sep, i + 1, Append(cur, text[i]))

\* _split_text_with_regex: by the separator, or into characters for ""
SplitWith(text, sep) ==
    IF sep = "" THEN [i \in 1..Len(text) |-> <<text[i]>>]
    ELSE PiecesFrom(text, sep, 1, <<>>)

Occurs(sep, text) == \E i \in 1..Len(text) : text[i] = sep

\* the first separator that is "" or occurs in the text
RECURSIVE PickSeparator(_, _, _)
PickSeparator(text, seps, i) ==
    IF i >= Len(seps) \/ seps[i] = "" \/ Occurs(seps[i], text) THEN i
    ELSE PickSeparator(text, seps, i + 1)

RECURSIVE Flatten(_)
Flatten(pieces) ==
    IF pieces = <<>> THEN <<>> ELSE Head(pieces) \o Flatten(Tail(pieces))

RECURSIVE LStrip(_)
LStrip(t) == IF t # <<>> /\ Head(t) \in Whitespace THEN LStrip(Tail(t)) ELSE t

RECURSIVE RStrip(_)
RStrip(t) ==
    IF t # <<>> /\ t[Len(t)] \in Whitespace
      THEN RStrip(SubSeq(t, 1, Len(t) - 1)) ELSE t

\* _join_docs: the pieces joined, whitespace stripped at both ends; no
\* chunk if nothing is left
JoinDocs(cur) ==
    LET doc == RStrip(LStrip(Flatten(cur)))
    IN  IF doc = <<>> THEN <<>> ELSE <<doc>>

\* _merge_splits, after a chunk was emitted: pieces are popped from the
\* front of the running chunk while it is longer than chunk_overlap, or
\* too long to take the next piece
RECURSIVE Shrink(_, _, _)
Shrink(cur, total, len) ==
    IF total > ChunkOverlap \/ (total + len > ChunkSize /\ total > 0)
      THEN Shrink(Tail(cur), total - Len(Head(cur)), len)
      ELSE [cur |-> cur, total |-> total]

\* _merge_splits: small pieces are added to the running chunk until the
\* next one would make it longer than chunk_size
RECURSIVE MergeFrom(_, _, _, _, _)
MergeFrom(splits, i, cur, total, docs) ==
    IF i > Len(splits) THEN docs \o JoinDocs(cur)
    ELSE LET d == splits[i] IN
         IF total + Len(d) > ChunkSize /\ Len(cur) > 0
           THEN LET kept == Shrink(cur, total, Len(d))
                IN  MergeFrom(splits, i + 1, Append(kept.cur, d),
                              kept.total + Len(d), docs \o JoinDocs(cur))
           ELSE MergeFrom(splits, i + 1, Append(cur, d), total + Len(d), docs)

MergeSplits(splits) == MergeFrom(splits, 1, <<>>, 0, <<>>)

\* _split_text: the pieces shorter than chunk_size are merged, a longer
\* piece is split again with the separators that are left
RECURSIVE SplitText(_, _)
RECURSIVE SplitPieces(_, _, _, _)
SplitPieces(splits, rest, i, good) ==
    IF i > Len(splits)
      THEN (IF good = <<>> THEN <<>> ELSE MergeSplits(good))
    ELSE IF Len(splits[i]) < ChunkSize
      THEN SplitPieces(splits, rest, i + 1, Append(good, splits[i]))
    ELSE (IF good = <<>> THEN <<>> ELSE MergeSplits(good))
         \o (IF rest = <<>> THEN <<splits[i]>> ELSE SplitText(splits[i], rest))
         \o SplitPieces(splits, rest, i + 1, <<>>)

SplitText(text, seps) ==
    LET k == PickSeparator(text, seps, 1)
        rest == IF seps[k] = "" THEN <<>> ELSE SubSeq(seps, k + 1, Len(seps))
    IN  SplitPieces(SplitWith(text, seps[k]), rest, 1, <<>>)

\* the text of a document, extracted and not yet chunked
ChunkJobs == {[pc |-> "text", text |-> t, chunks |-> <<>>] : t \in Texts}

\* chunks = text_splitter.create_documents([text], metadatas=[...])
Chunk ==
    /\ job.pc = "text"
    /\ job' = [job EXCEPT !.pc = "chunked",
                          !.chunks = SplitText(job.text, Separators)]
    /\ UNCHANGED <<mainvars, inc, rag, pinecone, thr, proc>>

NextChunk == Chunk

\* ======================================================= question answering
\* ask_question and stream_question on their data.  A text is a sequence of
\* characters, with "data: ", "[DONE]" and the first line of the system
\* message as single symbols.  A chunk is its page_content and its metadata,
\* a set of <<key, value>> pairs.  ranked is the index's ranking of all its
\* chunks for the question; frs are the fragments the model streams for the
\* messages, and the model's invoke returns their concatenation.
ChunkOptions ==
    {[page_content |-> <<"x">>, metadata |-> {<<"source", "a.pdf">>}],
     [page_content |-> <<"y", "z">>, metadata |-> {<<"source", "b.pdf">>}],
     [page_content |-> <<"y", "z">>, metadata |-> {}]}

FragTexts == {<<>>, <<"a">>, <<"b", "\n", "c">>}

QaIdle == [pc |-> "asked", ranked |-> <<>>, frs |-> <<>>, question |-> <<"q">>,
           docs |-> <<>>, context |-> <<>>, messages |-> <<>>,
           answer |-> <<>>, citations |-> <<>>,
           sdocs |-> <<>>, scontext |-> <<>>, smessages |-> <<>>,
           events |-> <<>>, body |-> <<>>, heard |-> <<>>]

QaJobs ==
    {[QaIdle EXCEPT !.ranked = rk, !.frs = fs] :
        rk \in SeqsUpTo(ChunkOptions, MaxRanked),
        fs \in SeqsUpTo(FragTexts, MaxFrags)}

QaRest == <<mainvars, inc, rag, pinecone, thr, proc>>

\* vectorstore.similarity_search(question, k): the k best of the ranking
SimilaritySearch(ranked, k) == SubSeq(ranked, 1, Min(k, Len(ranked)))

\* sep.join(texts)
RECURSIVE Join(_, _)
Join(texts, sep) ==
    IF texts = <<>> THEN <<>>
    ELSE IF Len(texts) = 1 THEN texts[1]
    ELSE texts[1] \o sep \o Join(Tail(texts), sep)

ContextText(docs) ==
    Join([i \in 1..Len(docs) |-> docs[i].page_content], <<"\n", "\n">>)

\* [SystemMessage(f"Answer based on this context:\n{context_text}"),
\*  HumanMessage(question)]
Messages(context, question) ==
    <<[role |-> "system",
       content |-> <<"Answer based on this context:", "\n">> \o context],
      [role |-> "human", content |-> question]>>

\* metadata.get(key, default)
Get(metadata, key, default) ==
    IF \E p \in metadata : p[1] = key
      THEN (CHOOSE p \in metadata : p[1] = key)[2]
      ELSE default

Source(doc) == Get(doc.metadata, "source", "unknown")

\* list(S) of a set S: its elements, each once, in some order
Listings(S) ==
    {l \in [1..Cardinality(S) -> S] : \A i, j \in DOMAIN l : l[i] = l[j] => i = j}

\* docs = vectorstore.similarity_search(req.question, k=4)
QaSearch ==
    /\ job.pc = "asked"
    /\ job' = [job EXCEPT !.pc = "found",
                          !.docs = SimilaritySearch(job.ranked, KAsk)]
    /\ UNCHANGED QaRest

\* context_text = "\n\n".join(...); messages = [...]
QaContext ==
    /\ job.pc = "found"
    /\ LET context == ContextText(job.docs)
       IN  job' = [job EXCEPT !.pc = "prompted", !.context = context,
                              !.messages = Messages(context, job.question)]
    /\ UNCHANGED QaRest

\* QaInvoke with a list comprehension in place of the set comprehension
QaInvoke_CitesEveryChunk ==
    /\ job.pc = "prompted"
    /\ job' = [job EXCEPT !.pc = "answered", !.answer = Flatten(job.frs),
                          !.citations = [i \in 1..Len(job.docs) |-> Source(job.docs[i])]]
    /\ UNCHANGED QaRest

\* response = llm.invoke(messages);
\* sources = list({doc.metadata.get("source", "unknown") for doc in docs});
\* return {"answer": response.content, "citations": sources}
QaInvoke ==
    /\ job.pc = "prompted"
    /\ \E sources \in Listings({Source(job.docs[i]) : i \in 1..Len(job.docs)}) :
         job' = [job EXCEPT !.pc = "answered", !.answer = Flatten(job.frs),
                            !.citations = sources]
    /\ UNCHANGED QaRest

\* stream_question, for the same question on the same index:
\* docs = vectorstore.similarity_search(question, k=4); context_text = ...
QsSearch ==
    /\ job.pc = "answered"
    /\ LET docs == SimilaritySearch(job.ranked, KAsk)
       IN  job' = [job EXCEPT !.pc = "sfound", !.sdocs = docs,
                              !.scontext = ContextText(docs)]
    /\ UNCHANGED QaRest

\* f"data: {chunk.content}\n\n"
Event(content) == <<"data: ">> \o content \o <<"\n", "\n">>

\* event_generator, run to its end: the messages, an event for every
\* non-empty fragment of llm.astream(messages), the "[DONE]" event; the
\* response body is the events one after the other
QsStream ==
    /\ job.pc = "sfound"
    /\ LET said == SelectSeq(job.frs, LAMBDA f : f # <<>>)
           events == [i \in 1..Len(said) |-> Event(said[i])]
                        \o <<Event(<<"[DONE]">>)>>
       IN  job' = [job EXCEPT !.pc = "streamed",
                              !.smessages = Messages(job.scontext, job.question),
                              !.events = events, !.body = Flatten(events)]
    /\ UNCHANGED QaRest

\* response.iter_lines(): the body cut at every line end
RECURSIVE LinesFrom(_, _, _)
LinesFrom(body, i, cur) ==
    IF i > Len(body) THEN (IF cur = <<>> THEN <<>> ELSE <<cur>>)
    ELSE IF body[i] = "\n" THEN <<cur>> \o LinesFrom(body, i + 1, <<>>)
    ELSE LinesFrom(body, i + 1, Append(cur, body[i]))

\* the reader of tests/test_stream.py: of every non-empty line that starts
\* with "data: ", the rest (line.replace("data: ", "")) is written out,
\* until the rest is "[DONE]"
RECURSIVE Heard(_, _)
Heard(lines, i) ==
    IF i > Len(lines) THEN <<>>
    ELSE LET line == lines[i]
             content == SelectSeq(line, LAMBDA c : c # "data: ")
         IN  IF line # <<>> /\ Head(line) = "data: "
               THEN IF content = <<"[DONE]">> THEN <<>>
                    ELSE content \o Heard(lines, i + 1)
               ELSE Heard(lines, i + 1)

\* the client reads the stream and concatenates what it is given
QsClient ==
    /\ job.pc = "streamed"
    /\ job' = [job EXCEPT !.pc = "heard",
                          !.heard = Heard(LinesFrom(job.body, 1, <<>>), 1)]
    /\ UNCHANGED QaRest

NextQa ==
    \/ QaSearch
    \/ QaContext
    \/ QaInvoke
    \/ QsSearch
    \/ QsStream
    \/ QsClient

\* ========================================================== specifications
JobInit == job = QaIdle

Init == MainInit /\ IncInit /\ RagInit /\ ProcInit /\ JobInit

Spec == Init /\ [][Next]_vars

\* The event loop runs what is ready to run: every handler that can take a
\* step takes it, a response is sent, a sleep ends and a POST with a timeout
\* of 10 seconds ends.  Nothing obliges a client to send a request or a
\* task to be cancelled.
Fairness ==
    /\ WF_vars(Next /\ calls' = calls /\ bg' = bg)
    /\ \A r \in Req : WF_vars(WebEnter(r)) /\ WF_vars(Return(r))
    /\ \A c \in 1..MaxCalls : WF_vars(c \in DOMAIN bg /\ BgPost(c))
    /\ \A c \in 1..MaxCalls : WF_vars(c \in DOMAIN bg /\ BgEnd(c))

FairSpec == Spec /\ Fairness

\* app.core.rag alone; the remote index may exist already
InitRag ==
    /\ MainInit /\ IncInit /\ ProcInit /\ JobInit
    /\ rag = RagUnset /\ pinecone \in BOOLEAN /\ thr = [t \in Thr |-> ThrIdle]

SpecRag == InitRag /\ [][NextRag]_vars

\* app.core.rag with its functions called one after the other
SpecRagSerial == InitRag /\ [][NextRagSerial]_vars

\* the start of the process and the liveness route
SpecBoot == Init /\ [][NextBoot]_vars

\* one question, answered and then streamed, for every ranking of the
\* index and every stream of the model
InitQa == MainInit /\ IncInit /\ RagInit /\ ProcInit /\ job \in QaJobs

SpecQa == InitQa /\ [][NextQa]_vars

\* the chunker alone, for every text
InitChunk == MainInit /\ IncInit /\ RagInit /\ ProcInit /\ job \in ChunkJobs

SpecChunk == InitChunk /\ [][NextChunk]_vars

\* the increments alone
SpecInc == Init /\ [][NextInc]_vars

\* ================================================================ claims
AtReturn(r, k) == req[r].kind = k /\ req[r].pc = "return"

\* the chunks a call wrote for source f in its first m documents
RECURSIVE WrittenFor(_, _, _)
WrittenFor(r, f, m) ==
    IF m = 0 THEN 0
    ELSE WrittenFor(r, f, m - 1)
         + (IF req[r].files[m] = f THEN req[r].wr[m].w ELSE 0)

\* ---------------------------------------------------------------- C1
\* C1: when a POST /ingest call returns, with success or with a failure at
\* whatever stage, no temporary file that the call created is on disk.
NoTempFileAtReturn ==
    \A r \in Req :
        AtReturn(r, "ingest") => ~ \E d \in disk : d.owner = r

\* an ingest call that returns a failure of the index write of its second
\* document: both temporary files had been created
FailedAfterFileCreated ==
    \E r \in Req :
        /\ AtReturn(r, "ingest") /\ req[r].status = 500
        /\ req[r].pos = 2 /\ Len(req[r].wr) = 2

\* ---------------------------------------------------------------- C2
InFlightIngest(r) == req[r].kind = "ingest" /\ req[r].pc \notin {"idle", "return"}

\* the temporary paths a request in flight uses from now on
TempPaths(r) ==
    {TempName(req[r].files[i]) :
        i \in {j \in 1..Len(req[r].files) : j >= req[r].pos}}

\* C2: two ingest requests in flight at the same time use distinct temporary
\* paths, also for the same filename, and no file on disk belongs to a
\* request other than the one that is running.
RequestLocalTempPaths ==
    /\ \A r1, r2 \in Req :
         r1 # r2 /\ InFlightIngest(r1) /\ InFlightIngest(r2)
            => TempPaths(r1) \cap TempPaths(r2) = {}
    /\ \A d \in disk : d.owner = loop

\* ---------------------------------------------------------------- C3
\* C3: an ingest call that fails on its k-th document returns a failure;
\* the index holds what it held before plus the chunks written for
\* d1..dk (those of d1..dk-1 in full), nothing for dk+1..dn;
\* documents_ingested has grown by k-1 and errors by 1.
IngestFailureIsDocumentScoped ==
    \A r \in Req :
        AtReturn(r, "ingest") /\ req[r].exc # "" =>
            LET k == req[r].pos IN
            /\ req[r].status = 500
            /\ k \in 1..Len(req[r].files)
            /\ Len(req[r].wr) \in {k - 1, k}
            /\ \A i \in 1..(k - 1) : req[r].wr[i].w = req[r].wr[i].n
            /\ \A f \in Filenames :
                 index[f] = req[r].idx0[f] + WrittenFor(r, f, Len(req[r].wr))
            /\ METRICS["documents_ingested"] = req[r].di0 + (k - 1)
            /\ req[r].errInc = 1

\* the call fails on the second of three documents after the first one put
\* chunks into the index
FailedOnSecondOfThree ==
    \E r \in Req :
        /\ AtReturn(r, "ingest") /\ req[r].status = 500
        /\ Len(req[r].files) = 3 /\ req[r].pos = 2
        /\ req[r].wr[1].w > 0

\* ---------------------------------------------------------------- C4
\* C4: POST /extract whose filtered query returns no chunk ends with a status
\* other than the 500 of an index or model failure, and the model was not
\* invoked.
ExtractNotFoundIsDistinguished ==
    \A r \in Req :
        AtReturn(r, "extract") /\ req[r].hits = 0 =>
            req[r].status # 500 /\ req[r].llmCalls = 0

\* ---------------------------------------------------------------- C5
\* C5: POST /audit whose filtered query returns no chunk never invokes the
\* model and ends with document-not-found.
AuditNotFoundIsSignalled ==
    \A r \in Req :
        req[r].kind = "audit" /\ req[r].hits = 0 =>
            /\ req[r].llmCalls = 0
            /\ req[r].pc = "return" => req[r].status = 404

\* ---------------------------------------------------------------- C6
Failed(r) == req[r].status # 200 \/ req[r].exc # ""

\* C6: a request that ends in a failure has increased errors by exactly 1, a
\* request that succeeds has not increased it.
ErrorsCountedOncePerFailure ==
    \A r \in Req :
        req[r].pc = "return" =>
            req[r].errInc = (IF Failed(r) THEN 1 ELSE 0)

\* ---------------------------------------------------------------- C7
MetricsStep ==
    \E r \in Req :
        req[r].kind = "metrics" /\ req[r].pc = "pending" /\ req'[r].pc = "return"

\* C7: every counter is a non-negative integer that no step decreases, and
\* the step of GET /metrics changes none of them.
CountersNeverDecrease ==
    [][ /\ \A c \in Counters :
             METRICS[c] \in Nat /\ METRICS'[c] \in Nat /\ METRICS'[c] >= METRICS[c]
        /\ MetricsStep => METRICS' = METRICS ]_vars

\* GET /metrics has answered after an ingest call counted a document and an
\* error
MetricsReadAfterCounting ==
    \E r \in Req :
        /\ AtReturn(r, "metrics")
        /\ req[r].seen["documents_ingested"] >= 1
        /\ req[r].seen["errors"] >= 1

\* ---------------------------------------------------------------- C8
FullyWritten(r) == {i \in 1..Len(req[r].wr) : req[r].wr[i].w = req[r].wr[i].n}

\* C8: all along an ingest call the documents counted are those whose chunks
\* were all written, each once and in upload order; a successful response
\* has status "success" and processed_files equal to the uploaded filenames.
IngestCountsWrittenDocuments ==
    \A r \in Req :
        req[r].kind = "ingest" /\ req[r].pc \notin {"idle", "pending"} =>
            /\ METRICS["documents_ingested"] = req[r].di0 + Len(req[r].processed)
            /\ FullyWritten(r) = 1..Len(req[r].processed)
            /\ \A i \in 1..Len(req[r].processed) :
                 req[r].processed[i] = req[r].files[i]
            /\ req[r].pc = "return" /\ req[r].exc = "" =>
                 /\ req[r].status = 200 /\ req[r].detail = "success"
                 /\ req[r].body = req[r].files

\* a successful ingest of three documents, not all of the same name
IngestedThreeInOrder ==
    \E r \in Req :
        /\ AtReturn(r, "ingest") /\ req[r].status = 200
        /\ Len(req[r].body) = 3 /\ req[r].body[1] # req[r].body[3]

\* ---------------------------------------------------------------- C9
\* C9 as stated: questions_asked counts the /ask and /ask/stream invocations,
\* risks_audited the /audit invocations, and some counter counts the
\* /extract invocations.
EveryModeHasAttemptCounter ==
    /\ METRICS["questions_asked"] = invoked["ask"] + invoked["stream"]
    /\ METRICS["risks_audited"] = invoked["audit"]
    /\ \E c \in Counters : METRICS[c] = invoked["extract"]

ExtractStep == \E r \in Req : req[r].kind = "extract" /\ req'[r] # req[r]

\* C9, amended: questions_asked counts the /ask and /ask/stream invocations
\* and risks_audited the /audit invocations, whatever becomes of them; the
\* steps of /extract change no counter but errors.
AttemptCounters ==
    /\ [](/\ METRICS["questions_asked"] = invoked["ask"] + invoked["stream"]
          /\ METRICS["risks_audited"] = invoked["audit"])
    /\ [][ExtractStep =>
            \A c \in Counters \ {"errors"} : METRICS'[c] = METRICS[c]]_vars

\* a question or an audit that failed after it was counted
CountedAttemptFailed ==
    \E r \in Req :
        /\ req[r].kind \in {"ask", "stream", "audit"}
        /\ req[r].pc = "return" /\ req[r].status = 500
        /\ METRICS["questions_asked"] + METRICS["risks_audited"] >= 1

\* ---------------------------------------------------------------- C10
\* C10: the handler never holds the text of more than 10 pages that are not
\* yet chunked and written to the index.
AtMostTenPagesHeld == \A r \in Req : req[r].held <= 10

\* ---------------------------------------------------------------- C11
Ended == {"sent", "failed", "cancelled"}

\* C11: the acknowledgement of POST /webhook/events is fixed while the task
\* is only queued, so before any delivery attempt and whatever becomes of
\* it; a task starts its POST at most once, after its sleep; a POST that has
\* failed is the end of the task and changes no response.
AcknowledgedThenOnePost ==
    /\ [](\A r \in Req :
            req[r].task # 0 =>
                /\ bg[req[r].task] = "queued"
                /\ AtReturn(r, "webhook")
                /\ req[r].status = 200 /\ req[r].detail = "processing_started")
    /\ [][\A c \in DOMAIN bg :
            /\ bg'[c] = "posting" /\ bg[c] # "posting" => bg[c] = "sleeping"
            /\ bg[c] = "posting" => bg'[c] \in {"posting"} \cup Ended
            /\ bg[c] \in Ended => bg'[c] = bg[c]
            /\ bg[c] = "posting" /\ bg'[c] = "failed" => req' = req]_vars

\* two notifications were acknowledged; the POST of one failed, the other
\* was delivered
OneFailedOneSent ==
    \E c, d \in DOMAIN bg : bg[c] = "failed" /\ bg[d] = "sent"

\* ---------------------------------------------------------------- C12
\* C12: every notification task that an accepted POST /webhook/events
\* created eventually ends its delivery attempt, the POST sent or failed.
NotificationRunsToAnEnd ==
    \A c \in 1..MaxCalls :
        (c \in DOMAIN bg) ~> (c \in DOMAIN bg /\ bg[c] \in {"sent", "failed"})

\* ---------------------------------------------------------------- C13
NonEmpty(fs) == SelectSeq(fs, LAMBDA f : f # "")

Streaming(r) == req[r].kind = "stream" /\ req[r].status = 200

Increments(c) ==
    {<<h, i>> \in Hnd \X (1..3) :
        /\ inc[h].kind \in IncKinds
        /\ i <= Len(Prog(inc[h].kind))
        /\ Prog(inc[h].kind)[i] = c}

\* C16: once all the concurrently handled requests have finished, every
\* counter holds its initial value plus the number of increments the
\* requests made of it, however their steps were interleaved.
NoLostUpdate ==
    (\A h \in Hnd : inc[h].st = "done") =>
        \A c \in Counters : METRICS[c] = METRICS0[c] + Cardinality(Increments(c))

\* all requests have finished, every one of them an audit that was in flight
\* together with another one and that counted an error after its await
ConcurrentAuditsAllCounted ==
    /\ \A h \in Hnd :
         inc[h].st = "done" /\ inc[h].kind = "audit" /\ inc[h].conc
    /\ METRICS["errors"] = NHnd

\* ---------------------------------------------------------------- C17
\* C17: every document an ingest call reports in processed_files has chunks
\* of its source in the index, so a retrieval filtered on it is not empty; a
\* retrieval filtered on an identifier that was never ingested returns no
\* chunk, and /extract then answers not-found (404).
SourceLinksIngestionToRetrieval ==
    /\ \A r \in Req :
         AtReturn(r, "ingest") =>
            \A i \in 1..Len(req[r].processed) :
                Size(Matching(req[r].processed[i])) > 0
    /\ \A r \in Req :
         req[r].kind \in {"extract", "audit"} /\ req[r].docid \notin Filenames
            /\ req[r].hits >= 0 => req[r].hits = 0
    /\ \A r \in Req :
         AtReturn(r, "extract") /\ req[r].hits = 0 => req[r].status = 404

\* ---------------------------------------------------------------- C19
\* chunks i.. of cs lie in the text one after the other: chunk i starts
\* after the start of the chunk before it, which is at from and ends at
\* upto, and shares at least ChunkOverlap characters with it; the last
\* chunk ends where the text ends
RECURSIVE LaidOut(_, _, _, _, _)
LaidOut(text, cs, i, from, upto) ==
    IF i > Len(cs) THEN upto = Len(text)
    ELSE \E st \in (from + 1)..(upto - ChunkOverlap + 1) :
            /\ st + Len(cs[i]) - 1 <= Len(text)
            /\ cs[i] = SubSeq(text, st, st + Len(cs[i]) - 1)
            /\ LaidOut(text, cs, i + 1, st, st + Len(cs[i]) - 1)

\* C19: for a text longer than the chunk size every chunk is at most
\* ChunkSize long, consecutive chunks share at least ChunkOverlap
\* characters, and the chunks cover the text from its first character to
\* its last.
ChunksOverlapAndCover ==
    job.pc = "chunked" /\ Len(job.text) > ChunkSize =>
        /\ \A i \in 1..Len(job.chunks) : Len(job.chunks[i]) <= ChunkSize
        /\ job.chunks # <<>>
        /\ job.chunks[1] = SubSeq(job.text, 1, Len(job.chunks[1]))
        /\ LaidOut(job.text, job.chunks, 2, 1, Len(job.chunks[1]))

\* ---------------------------------------------------------------- C15
InitBody == {"list", "create", "embed", "store", "llm", "init_ret", "except"}

\* C15: at most one thread is inside the initialization sequence at a time,
\* and a call that returns a handle returns it set and with the other
\* handle set as well.
OneInitialisationBothHandles ==
    /\ Cardinality({t \in Thr : thr[t].pc \in InitBody}) <= 1
    /\ \A t \in Thr :
         thr[t].pc = "returned" /\ thr[t].out = "returned" =>
            thr[t].ret # 0 /\ thr[t].other # 0

\* ---------------------------------------------------------------- C20
\* C20: GET /healthz, sent to the service once it was started with its
\* configuration, is answered 200 with status "ok".
HealthzAnswersOk ==
    \A i \in DOMAIN proc.probes :
        proc.probes[i].env =>
            /\ proc.probes[i].answer.code = 200
            /\ proc.probes[i].answer.status = "ok"

\* ---------------------------------------------------------------- C14
\* C14: for the same question on the same index, what a client hears of
\* GET /ask/stream before the sentinel, concatenated, is the answer text of
\* POST /ask; both modes gave the model the same messages, built from the
\* same retrieval.
StreamedTextIsTheAnswer ==
    job.pc = "heard" =>
        /\ job.heard = job.answer
        /\ job.smessages = job.messages
        /\ job.sdocs = job.docs

\* ---------------------------------------------------------------- C18
\* where the text of chunk i starts in the context
RECURSIVE Offset(_, _)
Offset(docs, i) ==
    IF i = 1 THEN 1
    ELSE Offset(docs, i - 1) + Len(docs[i - 1].page_content) + 2

Answered == job.pc \notin {"asked", "found", "prompted"}

\* C18: POST /ask retrieves the best chunks of the ranking, at most 4; the
\* context holds their texts in rank order with a blank line between two
\* of them and nothing else; the citations hold every source of a
\* retrieved chunk, "unknown" for a chunk without one, each once; the
\* ranking of the index is never changed.
AskContextAndCitations ==
    /\ [](Answered =>
          LET docs == job.docs
              n == Len(docs)
              last == Offset(docs, n) + Len(docs[n].page_content) - 1
          IN  /\ n <= 4 /\ n <= Len(job.ranked)
              /\ n < 4 => n = Len(job.ranked)
              /\ \A i \in 1..n : docs[i] = job.ranked[i]
              /\ Len(job.context) = IF n = 0 THEN 0 ELSE last
              /\ \A i \in 1..n :
                   /\ SubSeq(job.context, Offset(docs, i),
                             Offset(docs, i) + Len(docs[i].page_content) - 1)
                        = docs[i].page_content
                   /\ i < n =>
                        SubSeq(job.context, Offset(docs, i + 1) - 2,
                               Offset(docs, i + 1) - 1) = <<"\n", "\n">>
              /\ \A i, j \in DOMAIN job.citations :
                   job.citations[i] = job.citations[j] => i = j
              /\ {job.citations[i] : i \in DOMAIN job.citations}
                   = {IF \E p \in docs[i].metadata : p[1] = "source"
                        THEN (CHOOSE p \in docs[i].metadata : p[1] = "source")[2]
                        ELSE "unknown" : i \in 1..n})
    /\ [][job.ranked' = job.ranked]_vars

\* an answer from an index of five chunks: four were retrieved, two of them
\* of one source and one without a source
AnsweredFromFourOfFive ==
    /\ job.pc = "answered"
    /\ Len(job.ranked) = 5 /\ Len(job.docs) = 4
    /\ Len(job.citations) = 3
    /\ \E i \in DOMAIN job.citations : job.citations[i] = "unknown"

\* ---------------------------------------------------------------- C21
\* C21: with the functions of app.core.rag called one after the other, an
\* exception that leaves initialize_rag leaves _vectorstore and _llm unset;
\* get_vectorstore returns a handle only while _llm is set; and once both
\* handles are set, no step assigns a global again.
InitialisationAllOrNothing ==
    /\ [][\A t \in Thr : InitExcept(t) =>
              rag'.vectorstore = 0 /\ rag'.llm = 0]_vars
    /\ [](\A t \in Thr :
            /\ thr[t].pc = "returned" /\ thr[t].out = "returned"
            /\ thr[t].fn = "get_vectorstore"
            => thr[t].other # 0)
    /\ [][rag.vectorstore # 0 /\ rag.llm # 0 => rag' = rag]_vars

====
